---- MODULE Spec2Model ----
(***************************************************************************)
(* Model of src/app.py (network configuration auditor): the rule           *)
(* evaluator audit_config, the risk banding get_risk_score and the batch   *)
(* aggregation loop of main.                                               *)
(*                                                                         *)
(* A configuration text is a sequence of tokens: words, the newline NL and *)
(* SP, a run of leading blanks at the start of a line.  Two words that are *)
(* neighbours in the sequence are separated by exactly one blank.  The     *)
(* regular expressions of audit_config are operators over that sequence.   *)
(***************************************************************************)
EXTENDS Integers, Sequences, FiniteSets, TLC

\* ------------------------------------------------------------------ bounds
MaxExtra == 2    \* lines appended to a base text of the evaluator inputs
MaxBatch == 2    \* uploads of one batch
MaxCount == 24   \* finding counts the banding is checked for: 0..MaxCount

\* ------------------------------------------------------------------ tokens
NL == "\n"
SP == " "
BADBYTE == "\\xff"   \* a byte that is not valid UTF-8

IsSpace(t) == t \in {NL, SP}
IsWord(t) == ~IsSpace(t)

\* str.lower on the words of the vocabulary (re.IGNORECASE folds both sides)
lower(t) ==
  CASE t = "Shutdown" -> "shutdown"
    [] t = "AAA" -> "aaa"
    [] t = "NEW-MODEL" -> "new-model"
    [] OTHER -> t

\* one literal of a pattern against one token, case folded or not
Eq(t, w, ic) == IF ic THEN lower(t) = w ELSE t = w

\* '^' under re.MULTILINE: the start of the text or just after a newline
LineStart(c, i) == i = 1 \/ (i > 1 /\ c[i-1] = NL)

\* '^\s*' under re.MULTILINE: only white space between a line start and i
AfterIndent(c, i) ==
  \E p \in 1..i : LineStart(c, p) /\ \A k \in p..(i-1) : IsSpace(c[k])

\* literals separated by single blanks, matched from position i
Phrase(c, i, ws, ic) ==
  /\ i >= 1
  /\ i + Len(ws) - 1 <= Len(c)
  /\ \A k \in 1..Len(ws) : Eq(c[i+k-1], ws[k], ic)

\* '\s+\S+' after the word at i: the position of the next word, 0 if none
NextWord(c, i) ==
  LET later == {j \in (i+1)..Len(c) : IsWord(c[j])}
  IN IF later = {} THEN 0 ELSE CHOOSE j \in later : \A k \in later : j <= k

\* '.' without re.DOTALL does not cross a newline
SameLine(c, i, k) == \A m \in i..k : c[m] # NL

\* re.search(r"\b<phrase>\b", content, re.IGNORECASE)
SearchPhrase(c, ws) == \E i \in 1..Len(c) : Phrase(c, i, ws, TRUE)

\* bytes.decode("utf-8", errors="ignore"): undecodable bytes are dropped
decode(raw) == SelectSeq(raw, LAMBDA t : t # BADBYTE)

\* ------------------------------------------------------- rules of the catalog
\* re.search(r"\bip dhcp snooping\b", content, re.IGNORECASE)
has_dhcp_snooping(c) == SearchPhrase(c, <<"ip", "dhcp", "snooping">>)

\* re.search(r"\bip arp inspection\b", content, re.IGNORECASE)
has_arp_inspection(c) == SearchPhrase(c, <<"ip", "arp", "inspection">>)

\* re.search(r"\bswitchport port-security\b", content, re.IGNORECASE)
has_port_security(c) == SearchPhrase(c, <<"switchport", "port-security">>)

\* '^interface\s+\S+' under re.MULTILINE and re.IGNORECASE
IfaceDecl(c, i) ==
  /\ i <= Len(c)
  /\ LineStart(c, i)
  /\ lower(c[i]) = "interface"
  /\ NextWord(c, i) # 0

\* the lazy '.*?' of a block that starts at i stops before the first later
\* '^interface\s+\S+' or at the end of the text ('\Z')
BlockEnd(c, i) ==
  LET j == NextWord(c, i)
      nxt == {e \in (j+1)..Len(c) : IfaceDecl(c, e)}
  IN IF nxt = {} THEN Len(c) + 1
     ELSE CHOOSE e \in nxt : \A k \in nxt : e <= k

\* re.findall(r'(?ms)^(interface\s+\S+.*?)(?=^interface\s+\S+|\Z)', ...)
\* scanning from position p
RECURSIVE BlocksFrom(_, _)
BlocksFrom(c, p) ==
  LET starts == {i \in p..Len(c) : IfaceDecl(c, i)}
  IN IF starts = {} THEN <<>>
     ELSE LET i == CHOOSE x \in starts : \A k \in starts : x <= k
              e == BlockEnd(c, i)
          IN <<SubSeq(c, i, e - 1)>> \o BlocksFrom(c, e)

iface_blocks(c) == BlocksFrom(c, 1)

\* the shutdown test without its line anchor: 'no shutdown' passes for shutdown
block_has_shutdown_mut(block) ==
  \E i \in 1..Len(block) : block[i] = "shutdown"

\* re.search(r'(?m)^\s*shutdown\b', block): no re.IGNORECASE here
block_has_shutdown(block) ==
  \E i \in 1..Len(block) : block[i] = "shutdown" /\ AfterIndent(block, i)

\* the for loop over iface_blocks with its break: true iff the finding is
\* appended (once)
has_unshut_block(c) ==
  LET bs == iface_blocks(c)
  IN \E b \in 1..Len(bs) : ~block_has_shutdown(bs[b])

\* re.search(r"\bswitchport trunk native vlan\s+1\b", content, re.IGNORECASE)
has_native_vlan1(c) ==
  \E i \in 1..Len(c) :
    /\ Phrase(c, i, <<"switchport", "trunk", "native", "vlan">>, TRUE)
    /\ NextWord(c, i + 3) # 0
    /\ lower(c[NextWord(c, i + 3)]) = "1"

\* re.search(r'(?mi)^\s*transport input .*telnet', content)
telnet_line(c) ==
  \E i \in 1..Len(c) :
    /\ Phrase(c, i, <<"transport", "input">>, TRUE)
    /\ AfterIndent(c, i)
    /\ \E k \in (i+2)..Len(c) : SameLine(c, i, k) /\ lower(c[k]) = "telnet"

\* re.search(r'(?ms)^line vty.*?transport input .*telnet', content):
\* re.DOTALL, no case folding
telnet_vty(c) ==
  \E i \in 1..Len(c) :
    /\ LineStart(c, i)
    /\ Phrase(c, i, <<"line", "vty">>, FALSE)
    /\ \E j \in (i+2)..Len(c) :
         /\ Phrase(c, j, <<"transport", "input">>, FALSE)
         /\ j + 2 <= Len(c)
         /\ IsWord(c[j+2])
         /\ \E k \in (j+2)..Len(c) : c[k] = "telnet"

\* the Telnet test with only its 'line vty' alternative
has_telnet_mut(c) == telnet_vty(c)

has_telnet(c) == telnet_line(c) \/ telnet_vty(c)

\* re.search(r"\bsnmp-server community\s+(public|private)\b", ..., re.IGNORECASE)
has_default_snmp(c) ==
  \E i \in 1..Len(c) :
    /\ Phrase(c, i, <<"snmp-server", "community">>, TRUE)
    /\ NextWord(c, i + 1) # 0
    /\ lower(c[NextWord(c, i + 1)]) \in {"public", "private"}

\* re.search(r"\b(access-list|ip access-list|ip prefix-list|ipv6 access-list)\b", ...)
has_acl(c) ==
  \/ SearchPhrase(c, <<"access-list">>)
  \/ SearchPhrase(c, <<"ip", "access-list">>)
  \/ SearchPhrase(c, <<"ip", "prefix-list">>)
  \/ SearchPhrase(c, <<"ipv6", "access-list">>)

\* the AAA test with re.match for re.search: only the start of the text counts
has_aaa_mut(c) == Phrase(c, 1, <<"aaa", "new-model">>, TRUE)

\* re.search(r"\baaa new-model\b", content, re.IGNORECASE)
has_aaa(c) == SearchPhrase(c, <<"aaa", "new-model">>)

\* re.search(r'(?mi)^\s*username\s+\S+\s+(?:password|privilege)\b', content)
has_local_user(c) ==
  \E i \in 1..Len(c) :
    /\ lower(c[i]) = "username"
    /\ AfterIndent(c, i)
    /\ NextWord(c, i) # 0
    /\ NextWord(c, NextWord(c, i)) # 0
    /\ lower(c[NextWord(c, NextWord(c, i))]) \in {"password", "privilege"}

\* re.search(r"\blogging\s+\S+", content, re.IGNORECASE)
has_logging(c) ==
  \E i \in 1..Len(c) : lower(c[i]) = "logging" /\ NextWord(c, i) # 0

\* re.search(r"\b(ntp server|clock set|ntp peer)\b", content, re.IGNORECASE)
has_ntp(c) ==
  \/ SearchPhrase(c, <<"ntp", "server">>)
  \/ SearchPhrase(c, <<"clock", "set">>)
  \/ SearchPhrase(c, <<"ntp", "peer">>)

\* re.search(r"snmp-server group .* v3", content, re.IGNORECASE): '.*' lies
\* between two blanks, so at least one word separates 'group' from 'v3'
has_snmpv3(c) ==
  \E i \in 1..Len(c) :
    /\ Phrase(c, i, <<"snmp-server", "group">>, TRUE)
    /\ \E k \in (i+3)..Len(c) : SameLine(c, i, k) /\ lower(c[k]) = "v3"

\* re.search(r'(?mi)^\s*(service ftp|ftp server|ip ftp)\b', content)
has_ftp(c) ==
  \E i \in 1..Len(c) :
    /\ \/ Phrase(c, i, <<"service", "ftp">>, TRUE)
       \/ Phrase(c, i, <<"ftp", "server">>, TRUE)
       \/ Phrase(c, i, <<"ip", "ftp">>, TRUE)
    /\ AfterIndent(c, i)

\* re.search(r'(?mi)^\s*ip http\b', content)
has_http(c) ==
  \E i \in 1..Len(c) :
    Phrase(c, i, <<"ip", "http">>, TRUE) /\ AfterIndent(c, i)

\* re.search(r"\bip ssh\b", content, re.IGNORECASE)
has_ssh(c) == SearchPhrase(c, <<"ip", "ssh">>)

\* the first-hop-redundancy pattern without its 'standby' alternative
has_fhrp_mut(c) ==
  \/ SearchPhrase(c, <<"vrrp">>)
  \/ SearchPhrase(c, <<"hsrp">>)

\* re.search(r"\b(standby\b|vrrp\b|hsrp\b)", content, re.IGNORECASE)
has_fhrp(c) ==
  \/ SearchPhrase(c, <<"standby">>)
  \/ SearchPhrase(c, <<"vrrp">>)
  \/ SearchPhrase(c, <<"hsrp">>)

\* re.search(r"\bstorm-control\b", content, re.IGNORECASE)
has_storm_control(c) == SearchPhrase(c, <<"storm-control">>)

\* re.search(r"\bspanning-tree\b", content, re.IGNORECASE)
has_spanning_tree(c) == SearchPhrase(c, <<"spanning-tree">>)

\* re.search(r"\bpassword 7\b", content, re.IGNORECASE)
has_type7(c) == SearchPhrase(c, <<"password", "7">>)

\* re.search(r"\barchive\b", content, re.IGNORECASE)
has_archive(c) == SearchPhrase(c, <<"archive">>)

\* re.search(r"\bservice password-encryption\b", content, re.IGNORECASE)
has_password_encryption(c) == SearchPhrase(c, <<"service", "password-encryption">>)

\* 'if <condition>: findings.append(<tuple>)'
emit(cond, f) == IF cond THEN <<f>> ELSE <<>>

\* audit_config, "--- 1. Layer 2 Security ---"
layer2_findings(filename, content) ==
     emit(~has_dhcp_snooping(content),
          <<"DHCP Snooping Disabled", filename, "DHCP attacks possible",
            "Enable DHCP Snooping", "Layer 2">>)
  \o emit(~has_arp_inspection(content),
          <<"Dynamic ARP Inspection Missing", filename, "ARP spoofing possible",
            "Enable Dynamic ARP Inspection", "Layer 2">>)
  \o emit(~has_port_security(content),
          <<"Port Security Not Configured", filename, "MAC flooding risk",
            "Enable Port Security", "Layer 2">>)
  \o emit(has_unshut_block(content),
          <<"Unused Interfaces Active (heuristic)", filename,
            "Potential unused interfaces not administratively shutdown",
            "Review & administratively shutdown unused interfaces", "Layer 2">>)
  \o emit(has_native_vlan1(content),
          <<"Default Native VLAN in Use", filename, "VLAN hopping risk",
            "Change native VLAN from 1", "Layer 2">>)

\* the Access Control section with the polarity of the ACL rule inverted
access_control_findings_mut(filename, content) ==
     emit(has_telnet(content),
          <<"Telnet Enabled", filename, "Credentials exposed in cleartext",
            "Disable Telnet and use SSH only", "Access Control">>)
  \o emit(has_default_snmp(content),
          <<"Default SNMP Community", filename, "Unauthorized SNMP access risk",
            "Use SNMPv3 with strong credentials", "Access Control">>)
  \o emit(has_acl(content),
          <<"No ACLs Found", filename, "Unrestricted traffic flows",
            "Implement ACLs where needed", "Access Control">>)

\* audit_config, "--- 2. Access Control ---"
access_control_findings(filename, content) ==
     emit(has_telnet(content),
          <<"Telnet Enabled", filename, "Credentials exposed in cleartext",
            "Disable Telnet and use SSH only", "Access Control">>)
  \o emit(has_default_snmp(content),
          <<"Default SNMP Community", filename, "Unauthorized SNMP access risk",
            "Use SNMPv3 with strong credentials", "Access Control">>)
  \o emit(~has_acl(content),
          <<"No ACLs Found", filename, "Unrestricted traffic flows",
            "Implement ACLs where needed", "Access Control">>)

\* audit_config, "--- 3. Authentication & Authorization ---"
aaa_findings(filename, content) ==
     emit(~has_aaa(content),
          <<"No AAA Configured", filename, "No centralized authentication",
            "Enable AAA (TACACS+/RADIUS)", "AAA">>)
  \o emit(has_local_user(content),
          <<"Local User Accounts with Passwords", filename,
            "Local credential management; possible weak auth",
            "Use AAA and avoid plaintext local passwords", "AAA">>)

\* the Logging section with its first two rules in the other order
logging_findings_mut(filename, content) ==
     emit(~has_ntp(content),
          <<"No NTP Configured", filename, "Logs not time-synced",
            "Configure NTP servers", "Logging">>)
  \o emit(~has_logging(content),
          <<"No Syslog Configured", filename, "No centralized log collection",
            "Configure Syslog servers", "Logging">>)
  \o emit(~has_snmpv3(content),
          <<"SNMPv3 Not Configured", filename, "Monitoring unencrypted",
            "Use SNMPv3 with authentication & privacy", "Logging">>)

\* audit_config, "--- 4. Logging & Monitoring ---"
logging_findings(filename, content) ==
     emit(~has_logging(content),
          <<"No Syslog Configured", filename, "No centralized log collection",
            "Configure Syslog servers", "Logging">>)
  \o emit(~has_ntp(content),
          <<"No NTP Configured", filename, "Logs not time-synced",
            "Configure NTP servers", "Logging">>)
  \o emit(~has_snmpv3(content),
          <<"SNMPv3 Not Configured", filename, "Monitoring unencrypted",
            "Use SNMPv3 with authentication & privacy", "Logging">>)

\* audit_config, "--- 5. Cryptographic & Protocol Risks ---"
crypto_findings(filename, content) ==
     emit(has_ftp(content),
          <<"FTP Enabled", filename, "Credentials exposed in cleartext",
            "Disable FTP; use SFTP/SCP/FTPS", "Crypto">>)
  \o emit(has_http(content),
          <<"HTTP Server Enabled", filename, "Management traffic unencrypted",
            "Disable HTTP; enable HTTPS (ip http secure-server)", "Crypto">>)
  \o emit(~has_ssh(content),
          <<"SSH Not Configured", filename, "Secure remote management not enforced",
            "Enable SSH v2 and restrict vty to SSH", "Crypto">>)

\* audit_config, "--- 6. Resilience & Availability ---"
resilience_findings(filename, content) ==
     emit(~has_fhrp(content),
          <<"No First-Hop Redundancy (HSRP/VRRP)", filename,
            "Single point of failure for gateway",
            "Implement HSRP/VRRP where required", "Resilience">>)
  \o emit(~has_storm_control(content),
          <<"No Storm Control", filename, "Broadcast/multicast flood risk",
            "Enable storm-control on access ports", "Resilience">>)
  \o emit(~has_spanning_tree(content),
          <<"Spanning Tree Not Configured", filename, "Switching loops possible",
            "Enable STP and configure root guard/portfast", "Resilience">>)

\* audit_config, "--- 7. Configuration Management ---"
config_mgmt_findings(filename, content) ==
     emit(has_type7(content),
          <<"Weak Password Encryption (Type 7)", filename,
            "Easily reversible encryption",
            "Avoid type 7; use enable secret / stronger hashes", "Config Mgmt">>)
  \o emit(~has_archive(content),
          <<"No Config Archiving", filename, "No config backup/versioning",
            "Enable config archive/backup/versioning", "Config Mgmt">>)
  \o emit(~has_password_encryption(content),
          <<"Passwords Not Encrypted", filename, "Plaintext passwords in config",
            "Enable 'service password-encryption' and use secrets", "Config Mgmt">>)

\* audit_config with an early return for a text that holds no word
\* ('if not content.strip(): return findings')
audit_config_mut(filename, content) ==
  IF \A k \in 1..Len(content) : IsSpace(content[k]) THEN <<>>
  ELSE    layer2_findings(filename, content)
       \o access_control_findings(filename, content)
       \o aaa_findings(filename, content)
       \o logging_findings(filename, content)
       \o crypto_findings(filename, content)
       \o resilience_findings(filename, content)
       \o config_mgmt_findings(filename, content)

\* audit_config(filename, content): the findings in the order of the appends
audit_config(filename, content) ==
     layer2_findings(filename, content)
  \o access_control_findings(filename, content)
  \o aaa_findings(filename, content)
  \o logging_findings(filename, content)
  \o crypto_findings(filename, content)
  \o resilience_findings(filename, content)
  \o config_mgmt_findings(filename, content)

\* get_risk_score with the Low band cut one short ('< 2' for '<= 2')
get_risk_score_mut(num_findings) ==
  IF num_findings = 0 THEN "No Risk"
  ELSE IF num_findings < 2 THEN "Low"
  ELSE IF num_findings <= 5 THEN "Medium"
  ELSE "High"

\* get_risk_score(num_findings)
get_risk_score(num_findings) ==
  IF num_findings = 0 THEN "No Risk"
  ELSE IF num_findings <= 2 THEN "Low"
  ELSE IF num_findings <= 5 THEN "Medium"
  ELSE "High"

\* ---------------------------------------------------------------- inputs
\* lines of configuration text, as token sequences
M_dhcp == <<"ip", "dhcp", "snooping">>
M_arp == <<"ip", "arp", "inspection">>
M_portsec == <<"switchport", "port-security">>
M_aaa == <<"aaa", "new-model">>
M_logging == <<"logging", "host", "1.2.3.4">>
M_ntp == <<"ntp", "server", "1.2.3.4">>
M_ssh == <<"ip", "ssh", "version", "2">>
M_stp == <<"spanning-tree", "mode", "rapid-pvst">>
M_storm == <<"storm-control", "broadcast", "level", "1">>
M_standby == <<"standby", "1", "ip", "10.0.0.1">>
M_archive == <<"archive">>
M_pwenc == <<"service", "password-encryption">>
M_acl == <<"access-list", "10", "permit", "any">>
M_snmpv3 == <<"snmp-server", "group", "ADMIN", "v3", "priv">>

R_vlan1 == <<SP, "switchport", "trunk", "native", "vlan", "1">>
R_vty == <<"line", "vty", "0", "4">>
R_telnet == <<SP, "transport", "input", "telnet">>
R_snmp == <<"snmp-server", "community", "public">>
R_user == <<"username", "admin", "privilege", "15">>
R_ftp == <<"ftp", "server", "enable">>
R_http == <<"ip", "http", "server">>
R_type7 == <<"enable", "password", "7", "0822455D0A16">>

I_gi1 == <<"interface", "Gi0/1">>
I_sh == <<SP, "shutdown">>
I_nosh == <<SP, "no", "shutdown">>
I_Sh == <<SP, "Shutdown">>

O_host == <<"hostname", "R1">>
O_blank == <<>>
O_AAA == <<"AAA", "NEW-MODEL">>

\* the twelve mitigating lines of the specification's test text
TwelveLines ==
  <<M_dhcp, M_arp, M_portsec, M_aaa, M_logging, M_ntp, M_ssh, M_stp,
    M_storm, M_standby, M_archive, M_pwenc>>

\* lines that carry one of the risky settings
RiskyLines ==
  {R_vlan1, R_vty, R_telnet, R_snmp, R_user, R_ftp, R_http, R_type7}

AllRisky == <<R_vlan1, R_vty, R_telnet, R_snmp, R_user, R_ftp, R_http, R_type7>>

\* the lines appended to a base text
Vocabulary ==
  {M_aaa, O_AAA, M_acl, M_snmpv3} \cup RiskyLines
    \cup {I_gi1, I_sh, I_nosh, I_Sh, O_host, O_blank}

IfaceShut == <<I_gi1, I_sh>>

\* the texts the evaluator inputs start with
BaseTexts == {<<>>, TwelveLines, AllRisky, IfaceShut}

\* all sequences over S of length at most n
RECURSIVE SeqsUpTo(_, _)
SeqsUpTo(S, n) ==
  IF n = 0 THEN {<<>>}
  ELSE LET shorter == SeqsUpTo(S, n - 1)
       IN shorter \cup {Append(s, x) : s \in shorter, x \in S}

\* the text of a file: its lines, each ended by a newline
RECURSIVE Flatten(_)
Flatten(lines) ==
  IF lines = <<>> THEN <<>>
  ELSE Head(lines) \o <<NL>> \o Flatten(Tail(lines))

Names == {"sw1.txt", "sw2.txt"}

\* texts of the uploaded files of a batch
T_empty == <<>>
T_full == TwelveLines \o <<M_acl, M_snmpv3>>
T_twelve == TwelveLines
T_medium == TwelveLines \o <<I_gi1, R_vlan1, R_http>>
SampleTexts == {T_empty, T_full, T_twelve}

\* an uploaded item: its name, its kind, the (name, bytes) entries it holds
\* (a plain file holds itself) and fail = k > 0 when reading raises just
\* before the k-th entry is reached (fail = 1: the item cannot be opened)
Entry(n, lines, d) == [inner |-> n, raw |-> Flatten(lines), isdir |-> d]

Plain(n, t) ==
  [name |-> n, kind |-> "plain", entries |-> <<Entry(n, t, FALSE)>>, fail |-> 0]

PlainUploads ==
  {Plain("sw1.txt", t) : t \in SampleTexts} \cup {Plain("sw2.txt", T_empty), Plain("sw2.txt", T_full)}

ArchiveUploads ==
  { [name |-> "a.zip", kind |-> "zip", fail |-> 0,
     entries |-> <<Entry("cfg/", <<>>, TRUE),
                   Entry("sw1.txt", T_medium, FALSE),
                   [inner |-> "sw2.txt", isdir |-> FALSE,
                    raw |-> <<BADBYTE>> \o Flatten(T_full)]>>],
    [name |-> "b.rar", kind |-> "rar", fail |-> 2,
     entries |-> <<Entry("sw2.txt", T_twelve, FALSE),
                   Entry("sw1.txt", T_empty, FALSE)>>],
    [name |-> "c.zip", kind |-> "zip", fail |-> 1,
     entries |-> <<Entry("sw1.txt", T_empty, FALSE)>>] }

Uploads == PlainUploads \cup ArchiveUploads

Batches == SeqsUpTo(Uploads, MaxBatch)

\* ------------------------------------------------------------------ state
VARIABLES
  arg_lines,       \* evaluator run: the lines of the text under evaluation
  arg_filename,    \* evaluator run: audit_config's filename
  arg_content,     \* evaluator run: audit_config's content
  ret_findings,    \* evaluator run: the list audit_config returned
  audit_pc,        \* evaluator run: "off", "call" or "ret"
  uploaded_files,  \* main: the uploads of this run
  idx,             \* main: position of 'for uploaded in uploaded_files'
  results,         \* main: flat list of finding tuples
  device_summary,  \* main: defaultdict(list), as (device, items) in key order
  warnings,        \* main: names of the uploads st.warning was called for
  df,              \* main: DataFrame of results
  summary_rows,    \* main: (device, count, score) rows
  category_counts, \* main: df['Category'].value_counts().to_dict()
  pc,              \* main: "off", "start", "loop", "info", "shown", "no_findings"
  cycle,           \* the number of runs of main started so far
  earlier,         \* the device names that had findings in an earlier run
  heatmap,         \* main: the pivot generate_heatmap_figure has drawn
  report_pc,       \* report: "off", "chart2", "details", "build",
                   \*         "cleanup", "returned", "raised", "word_returned"
  tmp_files,       \* report: the temporary files that exist
  elements,        \* generate_pdf_report: the flowables appended so far
  cat_names,       \* generate_pdf_report: the x axis of the category chart
  word_bullets     \* generate_word_report: the 'Findings by Category' bullets

audit_vars == <<arg_lines, arg_filename, arg_content, ret_findings, audit_pc>>
main_vars == <<uploaded_files, idx, results, device_summary, warnings, df,
               summary_rows, category_counts, pc>>
cycle_vars == <<cycle, earlier>>
vars == <<arg_lines, arg_filename, arg_content, ret_findings, audit_pc,
          uploaded_files, idx, results, device_summary, warnings, df,
          summary_rows, category_counts, pc, cycle, earlier, heatmap,
          report_pc, tmp_files, elements, cat_names, word_bullets>>
report_vars == <<report_pc, tmp_files, elements, cat_names, word_bullets>>

\* no figure has been drawn
NoHeatmap == [kind |-> "none"]

\* ------------------------------------------------- the evaluator on its own
InitAudit ==
  /\ \E b \in BaseTexts, x \in SeqsUpTo(Vocabulary, MaxExtra) : arg_lines = b \o x
  /\ arg_filename \in Names
  /\ arg_content = decode(Flatten(arg_lines))
  /\ ret_findings = <<>>
  /\ audit_pc = "call"
  /\ uploaded_files = <<>>
  /\ idx = 0
  /\ results = <<>>
  /\ device_summary = <<>>
  /\ warnings = <<>>
  /\ df = <<>>
  /\ summary_rows = <<>>
  /\ category_counts = <<>>
  /\ pc = "off"
  /\ cycle = 0
  /\ earlier = {}
  /\ heatmap = NoHeatmap
  /\ report_pc = "off"
  /\ tmp_files = {}
  /\ elements = <<>>
  /\ cat_names = <<>>
  /\ word_bullets = <<>>

AuditCall ==
  /\ audit_pc = "call"
  /\ ret_findings' = audit_config(arg_filename, arg_content)
  /\ audit_pc' = "ret"
  /\ UNCHANGED <<arg_lines, arg_filename, arg_content>>
  /\ UNCHANGED main_vars
  /\ UNCHANGED cycle_vars
  /\ UNCHANGED report_vars
  /\ UNCHANGED heatmap

NextAudit == AuditCall

SpecAudit == InitAudit /\ [][NextAudit]_vars

\* ------------------------------------- the evaluator on malformed texts
\* lines that are cut short or stand where they make no block
I_bare == <<"interface">>
I_orphan == <<"shutdown">>
O_sp == <<SP>>
X_aaa == <<"aaa">>
X_snmp == <<"snmp-server", "group">>
X_ntp == <<"ntp">>

MalformedLines ==
  {I_bare, I_orphan, O_sp, O_blank, X_aaa, X_snmp, X_ntp, I_gi1, I_nosh, M_acl}

\* the empty text, a declaration without a name, a block that nothing ends,
\* and the twelve lines followed by an open block
MalformedBases == {<<>>, <<I_bare>>, <<I_gi1, I_nosh>>, TwelveLines \o <<I_gi1>>}

InitTotal ==
  /\ \E b \in MalformedBases, x \in SeqsUpTo(MalformedLines, MaxExtra) :
       arg_lines = b \o x
  /\ arg_filename \in Names
  /\ arg_content = decode(Flatten(arg_lines))
  /\ ret_findings = <<>>
  /\ audit_pc = "call"
  /\ uploaded_files = <<>>
  /\ idx = 0
  /\ results = <<>>
  /\ device_summary = <<>>
  /\ warnings = <<>>
  /\ df = <<>>
  /\ summary_rows = <<>>
  /\ category_counts = <<>>
  /\ pc = "off"
  /\ cycle = 0
  /\ earlier = {}
  /\ heatmap = NoHeatmap
  /\ report_pc = "off"
  /\ tmp_files = {}
  /\ elements = <<>>
  /\ cat_names = <<>>
  /\ word_bullets = <<>>

NextTotal == AuditCall

SpecTotal == InitTotal /\ [][NextTotal]_vars

\* ------------------------------------------------------------ aggregation
\* device_summary[f[1]].append(f) on a defaultdict(list): a missing key is
\* created, at the end of the key order, by the first append under it
ds_append(ds, f) ==
  IF \E k \in 1..Len(ds) : ds[k].device = f[2]
  THEN [k \in 1..Len(ds) |->
          IF ds[k].device = f[2]
          THEN [ds[k] EXCEPT !.items = Append(@, f)]
          ELSE ds[k]]
  ELSE Append(ds, [device |-> f[2], items |-> <<f>>])

\* 'for f in file_findings: results.append(f); device_summary[f[1]].append(f)'
RECURSIVE add_findings(_, _)
add_findings(st, file_findings) ==
  IF file_findings = <<>> THEN st
  ELSE add_findings([results |-> Append(st.results, Head(file_findings)),
                     device_summary |-> ds_append(st.device_summary, Head(file_findings))],
                    Tail(file_findings))

\* process_file_bytes that assigns the file's findings to the device
\* ('device_summary[fname] = file_findings') instead of appending them
process_file_bytes_mut(st, fname, raw_bytes) ==
  LET fs == audit_config(fname, decode(raw_bytes))
      ds == st.device_summary
  IN [results |-> st.results \o fs,
      device_summary |->
        IF \E k \in 1..Len(ds) : ds[k].device = fname
        THEN [k \in 1..Len(ds) |->
                IF ds[k].device = fname THEN [ds[k] EXCEPT !.items = fs] ELSE ds[k]]
        ELSE IF fs = <<>> THEN ds
        ELSE Append(ds, [device |-> fname, items |-> fs])]

\* process_file_bytes(fname, raw_bytes) on the batch state st
process_file_bytes(st, fname, raw_bytes) ==
  add_findings(st, audit_config(fname, decode(raw_bytes)))

\* 'for inner in zf.namelist()': the first n entries, directories skipped
RECURSIVE process_entries(_, _, _)
process_entries(st, entries, n) ==
  IF n = 0 THEN st
  ELSE LET before == process_entries(st, entries, n - 1)
           e == entries[n]
       IN IF e.isdir THEN before
          ELSE process_file_bytes(before, e.inner, e.raw)

\* the number of entries reached before the exception, all of them if none
Reached(u) == IF u.fail = 0 THEN Len(u.entries) ELSE u.fail - 1

\* 'uploaded_files = st.file_uploader(...)' and the start of the run
Upload ==
  /\ pc = "start"
  /\ \E b \in Batches :
       /\ uploaded_files' = b
       /\ pc' = IF b = <<>> THEN "info" ELSE "loop"
  /\ idx' = 1
  /\ results' = <<>>
  /\ device_summary' = <<>>
  /\ UNCHANGED <<warnings, df, summary_rows, category_counts>>
  /\ UNCHANGED audit_vars
  /\ UNCHANGED cycle_vars
  /\ UNCHANGED report_vars
  /\ UNCHANGED heatmap

\* loop body, 'else' branch: a plain file
ProcessPlain ==
  /\ pc = "loop"
  /\ idx <= Len(uploaded_files)
  /\ uploaded_files[idx].kind = "plain"
  /\ LET u == uploaded_files[idx]
         st == process_entries([results |-> results, device_summary |-> device_summary],
                               u.entries, Reached(u))
     IN /\ results' = st.results
        /\ device_summary' = st.device_summary
        /\ warnings' = IF u.fail = 0 THEN warnings ELSE Append(warnings, u.name)
  /\ idx' = idx + 1
  /\ UNCHANGED <<uploaded_files, df, summary_rows, category_counts, pc>>
  /\ UNCHANGED audit_vars
  /\ UNCHANGED cycle_vars
  /\ UNCHANGED report_vars
  /\ UNCHANGED heatmap

\* the archive branches with a handler that gives up the loop: after the
\* warning no later upload is read
ProcessArchive_mut ==
  /\ pc = "loop"
  /\ idx <= Len(uploaded_files)
  /\ uploaded_files[idx].kind \in {"zip", "rar"}
  /\ LET u == uploaded_files[idx]
         st == process_entries([results |-> results, device_summary |-> device_summary],
                               u.entries, Reached(u))
     IN /\ results' = st.results
        /\ device_summary' = st.device_summary
        /\ warnings' = IF u.fail = 0 THEN warnings ELSE Append(warnings, u.name)
        /\ idx' = IF u.fail = 0 THEN idx + 1 ELSE Len(uploaded_files) + 1
  /\ UNCHANGED <<uploaded_files, df, summary_rows, category_counts, pc>>
  /\ UNCHANGED audit_vars
  /\ UNCHANGED cycle_vars
  /\ UNCHANGED report_vars
  /\ UNCHANGED heatmap

\* loop body, ZIP and RAR branches
ProcessArchive ==
  /\ pc = "loop"
  /\ idx <= Len(uploaded_files)
  /\ uploaded_files[idx].kind \in {"zip", "rar"}
  /\ LET u == uploaded_files[idx]
         st == process_entries([results |-> results, device_summary |-> device_summary],
                               u.entries, Reached(u))
     IN /\ results' = st.results
        /\ device_summary' = st.device_summary
        /\ warnings' = IF u.fail = 0 THEN warnings ELSE Append(warnings, u.name)
  /\ idx' = idx + 1
  /\ UNCHANGED <<uploaded_files, df, summary_rows, category_counts, pc>>
  /\ UNCHANGED audit_vars
  /\ UNCHANGED cycle_vars
  /\ UNCHANGED report_vars
  /\ UNCHANGED heatmap

\* a DataFrame whose columns list has RiskDesc and Recommendation exchanged
DataFrame_mut(rs) ==
  [k \in 1..Len(rs) |->
     [Finding |-> rs[k][1], File |-> rs[k][2], RiskDesc |-> rs[k][4],
      Recommendation |-> rs[k][3], Category |-> rs[k][5]]]

\* pd.DataFrame(results, columns=[...]): one row per tuple, columns by position
DataFrame(rs) ==
  [k \in 1..Len(rs) |->
     [Finding |-> rs[k][1], File |-> rs[k][2], RiskDesc |-> rs[k][3],
      Recommendation |-> rs[k][4], Category |-> rs[k][5]]]

\* the distinct values of a sequence in order of first appearance, those of
\* s[k..] added to the ones already seen
RECURSIVE unique_from(_, _, _)
unique_from(s, k, seen) ==
  IF k > Len(s) THEN seen
  ELSE unique_from(s, k + 1,
                   IF \E j \in 1..Len(seen) : seen[j] = s[k] THEN seen
                   ELSE Append(seen, s[k]))

unique(s) == unique_from(s, 1, <<>>)

CountOf(s, x) == Cardinality({k \in 1..Len(s) : s[k] = x})

\* insertion of a (value, count) pair into a list sorted by descending count,
\* after the pairs of equal count
insert_desc(sorted, pr) ==
  LET before == {k \in 1..Len(sorted) : sorted[k][2] >= pr[2]}
      n == Cardinality(before)
  IN SubSeq(sorted, 1, n) \o <<pr>> \o SubSeq(sorted, n + 1, Len(sorted))

RECURSIVE sort_desc(_)
sort_desc(prs) ==
  IF prs = <<>> THEN <<>>
  ELSE insert_desc(sort_desc(SubSeq(prs, 1, Len(prs) - 1)), prs[Len(prs)])

\* Series.value_counts().to_dict(): (value, count) by descending count, values
\* of equal count in order of first appearance
value_counts(s) ==
  LET u == unique(s)
  IN sort_desc([k \in 1..Len(u) |-> <<u[k], CountOf(s, u[k])>>])

\* 'for device, items in device_summary.items(): summary_rows.append(...)'
build_summary_rows(ds) ==
  [k \in 1..Len(ds) |->
     <<ds[k].device, Len(ds[k].items), get_risk_score(Len(ds[k].items))>>]

\* pd.pivot_table(df, values='Finding', index='File', columns='Category',
\* aggfunc='count', fill_value=0): a row per value of File and a column per
\* value of Category that occurs in df; a cell counts the rows of df with
\* that File and that Category, 0 where there is none (the order of the rows
\* is not modelled)
pivot_table(d) ==
  LET files == {d[k].File : k \in 1..Len(d)}
      cats == {d[k].Category : k \in 1..Len(d)}
  IN [index |-> files,
      columns |-> cats,
      cell |-> [f \in files |-> [c \in cats |->
                  Cardinality({k \in 1..Len(d) : d[k].File = f /\ d[k].Category = c})]]]

categories_order ==
  <<"Layer 2", "Access Control", "AAA", "Logging", "Crypto", "Resilience", "Config Mgmt">>

\* the elements of a set in some order
RECURSIVE list_of(_)
list_of(S) ==
  IF S = {} THEN <<>>
  ELSE LET x == CHOOSE y \in S : TRUE IN <<x>> \o list_of(S \ {x})

\* generate_heatmap_figure(df_findings): what the figure shows
generate_heatmap_figure(df_findings) ==
  IF df_findings = <<>> THEN [kind |-> "No data"]
  ELSE LET pivot == pivot_table(df_findings)
           known == {categories_order[k] : k \in 1..Len(categories_order)}
           cols == SelectSeq(categories_order, LAMBDA c : c \in pivot.columns)
                     \o list_of(pivot.columns \ known)
       IN [kind |-> "heatmap",
           index |-> pivot.index,
           columns |-> cols,
           cell |-> [f \in pivot.index |->
                       [c \in {cols[k] : k \in 1..Len(cols)} |-> pivot.cell[f][c]]]]

\* 'if results:' after the loop
ShowFindings ==
  /\ pc = "loop"
  /\ idx > Len(uploaded_files)
  /\ results # <<>>
  /\ df' = DataFrame(results)
  /\ summary_rows' = build_summary_rows(device_summary)
  /\ category_counts' = value_counts([k \in 1..Len(results) |-> DataFrame(results)[k].Category])
  /\ heatmap' = generate_heatmap_figure(DataFrame(results))
  /\ pc' = "shown"
  /\ UNCHANGED <<uploaded_files, idx, results, device_summary, warnings>>
  /\ UNCHANGED audit_vars
  /\ UNCHANGED cycle_vars
  /\ UNCHANGED report_vars

\* 'else: st.success("No findings identified in uploaded files.")'
ShowNoFindings ==
  /\ pc = "loop"
  /\ idx > Len(uploaded_files)
  /\ results = <<>>
  /\ pc' = "no_findings"
  /\ UNCHANGED <<uploaded_files, idx, results, device_summary, warnings, df,
                 summary_rows, category_counts>>
  /\ UNCHANGED audit_vars
  /\ UNCHANGED cycle_vars
  /\ UNCHANGED report_vars
  /\ UNCHANGED heatmap

Init ==
  /\ arg_lines = <<>>
  /\ arg_filename = ""
  /\ arg_content = <<>>
  /\ ret_findings = <<>>
  /\ audit_pc = "off"
  /\ uploaded_files = <<>>
  /\ idx = 0
  /\ results = <<>>
  /\ device_summary = <<>>
  /\ warnings = <<>>
  /\ df = <<>>
  /\ summary_rows = <<>>
  /\ category_counts = <<>>
  /\ pc = "start"
  /\ cycle = 0
  /\ earlier = {}
  /\ heatmap = NoHeatmap
  /\ report_pc = "off"
  /\ tmp_files = {}
  /\ elements = <<>>
  /\ cat_names = <<>>
  /\ word_bullets = <<>>

Next == Upload \/ ProcessPlain \/ ProcessArchive \/ ShowFindings \/ ShowNoFindings

Spec == Init /\ [][Next]_vars

\* ------------------------------------------------------- run after run
MaxCycles == 2   \* runs of main in one session

\* an upload whose read() raises
Unreadable(n, t) ==
  [name |-> n, kind |-> "plain", entries |-> <<Entry(n, t, FALSE)>>, fail |-> 1]

\* the uploads of the runs: a file with all absence findings, one without
\* findings, one that cannot be read, an archive that breaks after its first
\* entry and one that cannot be opened
CycleUploads ==
  { Plain("sw1.txt", T_empty), Plain("sw2.txt", T_full),
    Unreadable("sw2.txt", T_empty),
    [name |-> "b.rar", kind |-> "rar", fail |-> 2,
     entries |-> <<Entry("sw2.txt", T_twelve, FALSE),
                   Entry("sw1.txt", T_empty, FALSE)>>],
    [name |-> "c.zip", kind |-> "zip", fail |-> 1,
     entries |-> <<Entry("sw1.txt", T_empty, FALSE)>>] }

CycleBatches == SeqsUpTo(CycleUploads, MaxBatch)

\* a rerun whose batch lives outside main: the list and the mapping of the
\* run before are kept
Rerun_mut ==
  /\ pc \in {"start", "loop", "info", "shown", "no_findings"}
  /\ cycle < MaxCycles
  /\ \E b \in CycleBatches :
       /\ uploaded_files' = b
       /\ pc' = IF b = <<>> THEN "info" ELSE "loop"
  /\ idx' = 1
  /\ results' = results
  /\ device_summary' = device_summary
  /\ warnings' = <<>>
  /\ df' = <<>>
  /\ summary_rows' = <<>>
  /\ category_counts' = <<>>
  /\ cycle' = cycle + 1
  /\ earlier' = earlier \cup {results[k][2] : k \in 1..Len(results)}
  /\ heatmap' = NoHeatmap
  /\ UNCHANGED audit_vars
  /\ UNCHANGED report_vars

\* the script is run again from the top of main with the uploads the
\* uploader holds then: 'results = []', 'device_summary = defaultdict(list)';
\* the locals and the messages of the run before are gone
Rerun ==
  /\ pc \in {"start", "loop", "info", "shown", "no_findings"}
  /\ cycle < MaxCycles
  /\ \E b \in CycleBatches :
       /\ uploaded_files' = b
       /\ pc' = IF b = <<>> THEN "info" ELSE "loop"
  /\ idx' = 1
  /\ results' = <<>>
  /\ device_summary' = <<>>
  /\ warnings' = <<>>
  /\ df' = <<>>
  /\ summary_rows' = <<>>
  /\ category_counts' = <<>>
  /\ cycle' = cycle + 1
  /\ earlier' = earlier \cup {results[k][2] : k \in 1..Len(results)}
  /\ heatmap' = NoHeatmap
  /\ UNCHANGED audit_vars
  /\ UNCHANGED report_vars

NextCycles ==
  Rerun \/ ProcessPlain \/ ProcessArchive \/ ShowFindings \/ ShowNoFindings

SpecCycles == Init /\ [][NextCycles]_vars

\* ------------------------------------------------------------- the reports
MaxDevices == 5   \* distinct device names of a reported batch

DevNames ==
  <<"d1.txt", "d2.txt", "d3.txt", "d4.txt", "d5.txt", "d6.txt", "d7.txt", "d8.txt">>

\* the largest member of a sequence of naturals, 0 for the empty one
RECURSIVE MaxOf(_)
MaxOf(sq) ==
  IF sq = <<>> THEN 0
  ELSE LET m == MaxOf(Tail(sq)) IN IF Head(sq) > m THEN Head(sq) ELSE m

\* the text of every file of a reported batch: the twelve lines without the
\* logging line (three findings: 'No ACLs Found', 'No Syslog Configured' and
\* 'SNMPv3 Not Configured')
T_report ==
  <<M_dhcp, M_arp, M_portsec, M_aaa, M_ntp, M_ssh, M_stp, M_storm, M_standby,
    M_archive, M_pwenc>>

\* the device names of the entries of a batch, as indices into DevNames, for
\* batches of 1 to n entries; names are interchangeable, so the k-th new name
\* of a batch is always DevNames[k]
RECURSIVE NameSeqs(_)
NameSeqs(n) ==
  IF n = 1 THEN {<<1>>}
  ELSE LET shorter == NameSeqs(n - 1)
           longest == {t \in shorter : Len(t) = n - 1}
       IN shorter \cup
          UNION {{Append(t, x) : x \in 1..(IF MaxOf(t) < MaxDevices
                                             THEN MaxOf(t) + 1 ELSE MaxDevices)} :
                 t \in longest}

Flowable(k, a) == [kind |-> k, arg |-> a]

\* generate_pdf_report, from "# Title" to the heading of the first chart
pdf_front_matter(summary) ==
  << Flowable("Paragraph", "Network Configuration Audit Report"),
     Flowable("Paragraph", "Generated"),
     Flowable("Spacer", 15),
     Flowable("Paragraph", "Device Risk Summary"),
     Flowable("Table", <<"summary", Len(summary)>>),
     Flowable("Spacer", 20),
     Flowable("Paragraph", "Risk Distribution (Devices by Risk Level)") >>

\* the loop over the devices with a break test that counts from 0
\* ('if i % 2 == 0 and i < len(devices)')
RECURSIVE device_sections_mut(_, _, _)
device_sections_mut(df_findings, devices, i) ==
  IF i > Len(devices) THEN <<>>
  ELSE << Flowable("Paragraph", devices[i]),
          Flowable("Spacer", 8),
          Flowable("Table", <<devices[i],
                              Cardinality({k \in 1..Len(df_findings) :
                                             df_findings[k].File = devices[i]})>>),
          Flowable("Spacer", 15) >>
       \o (IF (i - 1) % 2 = 0 /\ (i - 1) < Len(devices)
           THEN <<Flowable("PageBreak", "")>> ELSE <<>>)
       \o device_sections_mut(df_findings, devices, i + 1)

\* 'for i, device in enumerate(devices): ...' from the device numbered i
\* (counted from 1, so that i here is the code's i + 1)
RECURSIVE device_sections(_, _, _)
device_sections(df_findings, devices, i) ==
  IF i > Len(devices) THEN <<>>
  ELSE << Flowable("Paragraph", devices[i]),
          Flowable("Spacer", 8),
          Flowable("Table", <<devices[i],
                              Cardinality({k \in 1..Len(df_findings) :
                                             df_findings[k].File = devices[i]})>>),
          Flowable("Spacer", 15) >>
       \o (IF i % 2 = 0 /\ i < Len(devices)
           THEN <<Flowable("PageBreak", "")>> ELSE <<>>)
       \o device_sections(df_findings, devices, i + 1)

\* generate_pdf_report, "# 4. Detailed Findings"
detailed_findings(df_findings) ==
  <<Flowable("Paragraph", "Detailed Findings")>>
    \o (IF df_findings # <<>>
        THEN device_sections(df_findings,
                             unique([k \in 1..Len(df_findings) |-> df_findings[k].File]), 1)
        ELSE <<Flowable("Paragraph", "No findings to report.")>>)

\* the keys of a dict given as (key, value) pairs
keys(prs) == [k \in 1..Len(prs) |-> prs[k][1]]

\* the uploads of a batch that is going to be reported
InitReport ==
  /\ \E ns \in NameSeqs(MaxDevices) :
       uploaded_files = [k \in 1..Len(ns) |-> Plain(DevNames[ns[k]], T_report)]
  /\ idx = 1
  /\ results = <<>>
  /\ device_summary = <<>>
  /\ warnings = <<>>
  /\ df = <<>>
  /\ summary_rows = <<>>
  /\ category_counts = <<>>
  /\ pc = "loop"
  /\ cycle = 1
  /\ earlier = {}
  /\ heatmap = NoHeatmap
  /\ arg_lines = <<>>
  /\ arg_filename = ""
  /\ arg_content = <<>>
  /\ ret_findings = <<>>
  /\ audit_pc = "off"
  /\ report_pc = "off"
  /\ tmp_files = {}
  /\ elements = <<>>
  /\ cat_names = <<>>
  /\ word_bullets = <<>>

\* 'if st.button("Generate PDF Report")' on the batch shown, and
\* generate_pdf_report up to the first chart: the front matter, the temporary
\* file of the risk chart and fig.savefig, which may raise
PdfRiskChart ==
  /\ pc = "shown"
  /\ report_pc = "off"
  /\ tmp_files' = tmp_files \cup {"chart_path1"}
  /\ \E saved \in BOOLEAN :
       IF saved
       THEN /\ elements' = pdf_front_matter(summary_rows)
                             \o <<Flowable("Image", "chart_path1"), Flowable("Spacer", 20)>>
            /\ report_pc' = "chart2"
       ELSE /\ elements' = pdf_front_matter(summary_rows)
            /\ report_pc' = "raised"
  /\ UNCHANGED <<cat_names, word_bullets, heatmap>>
  /\ UNCHANGED <<audit_vars, main_vars, cycle_vars>>

\* "# 3. Findings by Category Chart": the bars in the order of the dict's
\* keys, the second temporary file and fig.savefig, which may raise
PdfCategoryChart ==
  /\ report_pc = "chart2"
  /\ cat_names' = keys(category_counts)
  /\ tmp_files' = tmp_files \cup {"chart_path2"}
  /\ \E saved \in BOOLEAN :
       IF saved
       THEN /\ elements' = elements
                             \o <<Flowable("Paragraph", "Findings by Category"),
                                  Flowable("Image", "chart_path2"),
                                  Flowable("PageBreak", "")>>
            /\ report_pc' = "details"
       ELSE /\ elements' = Append(elements, Flowable("Paragraph", "Findings by Category"))
            /\ report_pc' = "raised"
  /\ UNCHANGED <<word_bullets, heatmap>>
  /\ UNCHANGED <<audit_vars, main_vars, cycle_vars>>

\* "# 4. Detailed Findings"
PdfDetails ==
  /\ report_pc = "details"
  /\ elements' = elements \o detailed_findings(df)
  /\ report_pc' = "build"
  /\ UNCHANGED <<tmp_files, cat_names, word_bullets, heatmap>>
  /\ UNCHANGED <<audit_vars, main_vars, cycle_vars>>

\* 'doc.build(elements)', which may raise
PdfBuild ==
  /\ report_pc = "build"
  /\ \E built \in BOOLEAN : report_pc' = IF built THEN "cleanup" ELSE "raised"
  /\ UNCHANGED <<tmp_files, elements, cat_names, word_bullets, heatmap>>
  /\ UNCHANGED <<audit_vars, main_vars, cycle_vars>>

\* 'try: os.unlink(chart_path1); os.unlink(chart_path2)  except: pass' and
\* the return: an unlink that raises leaves its file and ends the try block
PdfCleanup ==
  /\ report_pc = "cleanup"
  /\ \E gone1, gone2 \in BOOLEAN :
       tmp_files' = IF ~gone1 THEN tmp_files
                    ELSE IF ~gone2 THEN tmp_files \ {"chart_path1"}
                    ELSE tmp_files \ {"chart_path1", "chart_path2"}
  /\ report_pc' = "returned"
  /\ UNCHANGED <<elements, cat_names, word_bullets, heatmap>>
  /\ UNCHANGED <<audit_vars, main_vars, cycle_vars>>

\* 'if st.button("Generate Word Report")' on the batch shown, and
\* generate_word_report: 'for category, count in category_counts.items()'
WordReport ==
  /\ pc = "shown"
  /\ report_pc = "off"
  /\ word_bullets' = category_counts
  /\ report_pc' = "word_returned"
  /\ UNCHANGED <<tmp_files, elements, cat_names, heatmap>>
  /\ UNCHANGED <<audit_vars, main_vars, cycle_vars>>

NextReport ==
  ProcessPlain \/ ShowFindings \/
  PdfRiskChart \/ PdfCategoryChart \/ PdfDetails \/ PdfBuild \/ PdfCleanup \/ WordReport

SpecReport == InitReport /\ [][NextReport]_vars

\* ===================================================================== claims
Titles(fs) == {fs[k][1] : k \in 1..Len(fs)}

\* the number of findings of fs whose title is in T
CountTitle(fs, T) == Cardinality({k \in 1..Len(fs) : fs[k][1] \in T})

HasLine(lines, L) == \E k \in 1..Len(lines) : lines[k] \in L

HeuristicTitle == "Unused Interfaces Active (heuristic)"

\* the rules that fire on the absence of a mitigating directive, each with the
\* lines of the inputs that carry its directive
AbsenceRules ==
  { [title |-> "DHCP Snooping Disabled", lines |-> {M_dhcp}],
    [title |-> "Dynamic ARP Inspection Missing", lines |-> {M_arp}],
    [title |-> "Port Security Not Configured", lines |-> {M_portsec}],
    [title |-> "No ACLs Found", lines |-> {M_acl}],
    [title |-> "No AAA Configured", lines |-> {M_aaa, O_AAA}],
    [title |-> "No Syslog Configured", lines |-> {M_logging}],
    [title |-> "No NTP Configured", lines |-> {M_ntp}],
    [title |-> "SNMPv3 Not Configured", lines |-> {M_snmpv3}],
    [title |-> "SSH Not Configured", lines |-> {M_ssh}],
    [title |-> "No First-Hop Redundancy (HSRP/VRRP)", lines |-> {M_standby}],
    [title |-> "No Storm Control", lines |-> {M_storm}],
    [title |-> "Spanning Tree Not Configured", lines |-> {M_stp}],
    [title |-> "No Config Archiving", lines |-> {M_archive}],
    [title |-> "Passwords Not Encrypted", lines |-> {M_pwenc}] }

\* the rules that fire on the presence of a risky setting, each with the lines
\* of the inputs that carry the setting
PresenceRules ==
  { [title |-> "Default Native VLAN in Use", lines |-> {R_vlan1}],
    [title |-> "Telnet Enabled", lines |-> {R_telnet}],
    [title |-> "Default SNMP Community", lines |-> {R_snmp}],
    [title |-> "Local User Accounts with Passwords", lines |-> {R_user}],
    [title |-> "FTP Enabled", lines |-> {R_ftp}],
    [title |-> "HTTP Server Enabled", lines |-> {R_http}],
    [title |-> "Weak Password Encryption (Type 7)", lines |-> {R_type7}] }

AbsenceTitles == {r.title : r \in AbsenceRules}
PresenceTitles == {r.title : r \in PresenceRules}

\* a line that begins with an interface declaration
IsIfaceLine(l) == Len(l) >= 2 /\ lower(l[1]) = "interface" /\ IsWord(l[2])

\* a line that begins, after optional leading white space, with 'shutdown'
BeginsWithShutdown(l) ==
  \/ (Len(l) >= 1 /\ l[1] = "shutdown")
  \/ (Len(l) >= 2 /\ l[1] = SP /\ l[2] = "shutdown")

\* the last line of the block that starts at line i
BlockLastLine(lines, i) ==
  LET nxt == {j \in (i+1)..Len(lines) : IsIfaceLine(lines[j])}
  IN IF nxt = {} THEN Len(lines)
     ELSE (CHOOSE j \in nxt : \A k \in nxt : j <= k) - 1

\* the block that starts at line i has no shutdown line
UnshutBlockAt(lines, i) ==
  /\ IsIfaceLine(lines[i])
  /\ \A j \in (i+1)..BlockLastLine(lines, i) : ~BeginsWithShutdown(lines[j])

ShutBlockAt(lines, i) ==
  /\ IsIfaceLine(lines[i])
  /\ \E j \in (i+1)..BlockLastLine(lines, i) : BeginsWithShutdown(lines[j])

SomeUnshutBlock(lines) == \E i \in 1..Len(lines) : UnshutBlockAt(lines, i)

\* the number of findings in fs filed under device d
FindingsFor(fs, d) == Cardinality({k \in 1..Len(fs) : fs[k][2] = d})

\* --------------------------------------------------------------------- C1
\* C1: get_risk_score(n) is 'No Risk' iff n = 0, 'Low' iff 1 <= n <= 2,
\* 'Medium' iff 3 <= n <= 5 and 'High' iff n >= 6, and every row of the
\* device summary carries get_risk_score of the number of findings the flat
\* list holds for that device.
C1_RiskBands ==
  /\ \A n \in 0..MaxCount :
       /\ (get_risk_score(n) = "No Risk") <=> (n = 0)
       /\ (get_risk_score(n) = "Low") <=> (1 <= n /\ n <= 2)
       /\ (get_risk_score(n) = "Medium") <=> (3 <= n /\ n <= 5)
       /\ (get_risk_score(n) = "High") <=> (n >= 6)
  /\ pc = "shown" =>
       \A k \in 1..Len(summary_rows) :
         LET n == FindingsFor(results, summary_rows[k][1])
         IN /\ summary_rows[k][2] = n
            /\ summary_rows[k][3] = get_risk_score(n)
            /\ (summary_rows[k][3] = "Low") <=> (1 <= n /\ n <= 2)
            /\ (summary_rows[k][3] = "Medium") <=> (3 <= n /\ n <= 5)
            /\ (summary_rows[k][3] = "High") <=> (n >= 6)

\* a summary with a Medium row of 5 findings and a High row
C1_Witness ==
  /\ pc = "shown"
  /\ \E k \in 1..Len(summary_rows) :
       summary_rows[k][2] = 5 /\ summary_rows[k][3] = "Medium"
  /\ \E k \in 1..Len(summary_rows) :
       summary_rows[k][2] >= 6 /\ summary_rows[k][3] = "High"

\* --------------------------------------------------------------------- C2
NoMitigatingLine(lines) == ~HasLine(lines, UNION {r.lines : r \in AbsenceRules})

\* the presence rules whose risky line the text holds
MatchedPresence(lines) == {r.title : r \in {q \in PresenceRules : HasLine(lines, q.lines)}}

\* C2 as stated: a text with none of the mitigating directives gets exactly 15
\* absence-type findings, plus one finding per presence pattern it matches,
\* and nothing else.
C2_Original ==
  (audit_pc = "ret" /\ NoMitigatingLine(arg_lines)) =>
    /\ CountTitle(ret_findings, AbsenceTitles \cup {HeuristicTitle}) = 15
    /\ \A t \in PresenceTitles :
         CountTitle(ret_findings, {t}) = IF t \in MatchedPresence(arg_lines) THEN 1 ELSE 0
    /\ Len(ret_findings) = 15 + Cardinality(MatchedPresence(arg_lines))

\* C2 amended: a text with none of the mitigating directives gets exactly 14
\* absence-type findings, one per absence rule, plus the interface heuristic
\* finding exactly when one of its interface blocks has no shutdown line, plus
\* exactly one finding per presence pattern it matches, and nothing else.
C2_AbsenceFindings ==
  (audit_pc = "ret" /\ NoMitigatingLine(arg_lines)) =>
    /\ \A t \in AbsenceTitles : CountTitle(ret_findings, {t}) = 1
    /\ CountTitle(ret_findings, AbsenceTitles) = 14
    /\ CountTitle(ret_findings, {HeuristicTitle}) =
         IF SomeUnshutBlock(arg_lines) THEN 1 ELSE 0
    /\ \A t \in PresenceTitles :
         CountTitle(ret_findings, {t}) = IF t \in MatchedPresence(arg_lines) THEN 1 ELSE 0
    /\ Len(ret_findings) = 14 + Cardinality(MatchedPresence(arg_lines))
                              + IF SomeUnshutBlock(arg_lines) THEN 1 ELSE 0

\* a text without mitigating directive that matches presence patterns and has
\* an unshut interface block, evaluated
C2_Witness ==
  /\ audit_pc = "ret"
  /\ NoMitigatingLine(arg_lines)
  /\ Cardinality(MatchedPresence(arg_lines)) >= 2
  /\ SomeUnshutBlock(arg_lines)
  /\ Len(ret_findings) >= 17

\* --------------------------------------------------------------------- C3
\* C3 as stated: the catalog has 21 rules, 15 that fire on absence and 6 that
\* fire on presence, so no evaluation returns more than 21 findings, more
\* than 15 of the absence kind or more than 6 of the presence kind.
C3_Original ==
  audit_pc = "ret" =>
    /\ Len(ret_findings) <= 21
    /\ CountTitle(ret_findings, AbsenceTitles \cup {HeuristicTitle}) <= 15
    /\ CountTitle(ret_findings, PresenceTitles) <= 6

\* C3 amended: the catalog has 22 rules; 14 fire when a mitigating pattern is
\* absent from the text, 7 fire when a risky pattern is present in it, and one
\* is the interface heuristic; every finding is emitted at most once and
\* exactly when the polarity condition of its rule holds on the text.
C3_Catalog ==
  audit_pc = "ret" =>
    /\ Cardinality(AbsenceTitles) = 14
    /\ Cardinality(PresenceTitles) = 7
    /\ HeuristicTitle \notin AbsenceTitles \cup PresenceTitles
    /\ AbsenceTitles \cap PresenceTitles = {}
    /\ Titles(ret_findings) \subseteq AbsenceTitles \cup PresenceTitles \cup {HeuristicTitle}
    /\ \A k1, k2 \in 1..Len(ret_findings) :
         ret_findings[k1][1] = ret_findings[k2][1] => k1 = k2
    /\ \A r \in AbsenceRules :
         (r.title \in Titles(ret_findings)) <=> ~HasLine(arg_lines, r.lines)
    /\ \A r \in PresenceRules :
         (r.title \in Titles(ret_findings)) <=> HasLine(arg_lines, r.lines)
    /\ (HeuristicTitle \in Titles(ret_findings)) <=> SomeUnshutBlock(arg_lines)

\* an evaluation in which every one of the 22 rules has fired
C3_Witness ==
  /\ audit_pc = "ret"
  /\ Len(ret_findings) = 22
  /\ CountTitle(ret_findings, PresenceTitles) = 7
  /\ CountTitle(ret_findings, AbsenceTitles) = 14

\* --------------------------------------------------------------------- C4
\* C4: the interface heuristic finding is emitted if and only if at least one
\* interface block (from a line that begins with an interface declaration to
\* the line before the next one, or the end) has no line that begins, after
\* optional white space, with 'shutdown'; and it is emitted exactly once
\* however many blocks qualify.
C4_InterfaceHeuristic ==
  audit_pc = "ret" =>
    CountTitle(ret_findings, {HeuristicTitle}) =
      IF SomeUnshutBlock(arg_lines) THEN 1 ELSE 0

\* two interface blocks, one shut and one not, evaluated to one finding
C4_Witness ==
  /\ audit_pc = "ret"
  /\ \E i, j \in 1..Len(arg_lines) :
       ShutBlockAt(arg_lines, i) /\ UnshutBlockAt(arg_lines, j)
  /\ CountTitle(ret_findings, {HeuristicTitle}) = 1

\* --------------------------------------------------------------------- C5
\* the text holds the twelve mitigating lines and no risky line
TwelveAndNoRisk(lines) ==
  /\ \A k \in 1..Len(TwelveLines) : HasLine(lines, {TwelveLines[k]})
  /\ ~HasLine(lines, UNION {r.lines : r \in PresenceRules})

\* C5 as stated: a text with the twelve mitigating lines and no risky line
\* gets no finding, or the interface heuristic finding only.
C5_Original ==
  (audit_pc = "ret" /\ TwelveAndNoRisk(arg_lines)) =>
    Titles(ret_findings) \subseteq {HeuristicTitle}

\* C5 amended: such a text gets no finding other than 'No ACLs Found' (which
\* it gets unless it also holds an access-list directive), 'SNMPv3 Not
\* Configured' (which it gets unless it also holds an SNMPv3 group directive)
\* and the interface heuristic finding.
C5_MitigatedText ==
  (audit_pc = "ret" /\ TwelveAndNoRisk(arg_lines)) =>
    /\ Titles(ret_findings) \subseteq
         {"No ACLs Found", "SNMPv3 Not Configured", HeuristicTitle}
    /\ ("No ACLs Found" \in Titles(ret_findings)) <=> ~HasLine(arg_lines, {M_acl})
    /\ ("SNMPv3 Not Configured" \in Titles(ret_findings)) <=> ~HasLine(arg_lines, {M_snmpv3})

\* the twelve lines and an unshut interface, evaluated to the three findings
C5_Witness ==
  /\ audit_pc = "ret"
  /\ TwelveAndNoRisk(arg_lines)
  /\ Titles(ret_findings) = {"No ACLs Found", "SNMPv3 Not Configured", HeuristicTitle}

\* ------------------------------------------------------ batches, for C6-C10
\* the entries of one upload that are evaluated: those reached before the
\* upload fails, directories left out
EvaluatedOf(u) ==
  SelectSeq(SubSeq(u.entries, 1, Reached(u)), LAMBDA e : ~e.isdir)

\* the entries of a sequence of uploads that are evaluated, in processing order
RECURSIVE Evaluated(_)
Evaluated(ups) ==
  IF ups = <<>> THEN <<>> ELSE EvaluatedOf(Head(ups)) \o Evaluated(Tail(ups))

\* what the evaluator returns for one entry
FindingsOf(e) == audit_config(e.inner, decode(e.raw))

RECURSIVE Concat(_)
Concat(ss) == IF ss = <<>> THEN <<>> ELSE Head(ss) \o Concat(Tail(ss))

RECURSIVE SumSeq(_)
SumSeq(ns) == IF ns = <<>> THEN 0 ELSE Head(ns) + SumSeq(Tail(ns))

\* the finding set kept for device d, empty if there is none
ItemsOf(ds, d) ==
  IF \E k \in 1..Len(ds) : ds[k].device = d
  THEN (CHOOSE r \in {ds[k] : k \in 1..Len(ds)} : r.device = d).items
  ELSE <<>>

Finished == pc \in {"shown", "no_findings"}

\* --------------------------------------------------------------------- C6
\* C6: when two or more entries of a batch resolve to one device name, the
\* device's finding set after the batch is the concatenation, in processing
\* order, of the findings of all those entries, the summary has a single row
\* for that name, and the row's Findings Count is the sum of the entries'
\* finding counts.
C6_Additive ==
  pc = "shown" =>
    LET E == Evaluated(uploaded_files)
    IN \A d \in {E[k].inner : k \in 1..Len(E)} :
         LET mine == SelectSeq(E, LAMBDA e : e.inner = d)
             fss == [k \in 1..Len(mine) |-> FindingsOf(mine[k])]
         IN Len(mine) >= 2 =>
              /\ ItemsOf(device_summary, d) = Concat(fss)
              /\ Cardinality({k \in 1..Len(summary_rows) : summary_rows[k][1] = d}) = 1
              /\ \A k \in 1..Len(summary_rows) :
                   summary_rows[k][1] = d =>
                     summary_rows[k][2] = SumSeq([j \in 1..Len(fss) |-> Len(fss[j])])

\* --------------------------------------------------------------------- C7
\* the batch state after the evaluation of entries with findings fss, in order
RECURSIVE FoldFindings(_, _)
FoldFindings(st, fss) ==
  IF fss = <<>> THEN st ELSE FoldFindings(add_findings(st, Head(fss)), Tail(fss))

EmptyBatch == [results |-> <<>>, device_summary |-> <<>>]

SeqRange(sq) == {sq[k] : k \in 1..Len(sq)}

\* C7: for every permutation of the (device name, text) pairs of a batch, the
\* per-device finding counts and risk scores and the per-category totals are
\* the ones the batch itself produced.
C7_OrderIndependent ==
  Finished =>
    LET E == Evaluated(uploaded_files)
        fss == [k \in 1..Len(E) |-> FindingsOf(E[k])]
    IN \A p \in Permutations(1..Len(E)) :
         LET st == FoldFindings(EmptyBatch, [k \in 1..Len(E) |-> fss[p[k]]])
             rows == build_summary_rows(st.device_summary)
             cats == [k \in 1..Len(st.results) |-> st.results[k][5]]
         IN /\ (st.results = <<>>) <=> (pc = "no_findings")
            /\ st.results # <<>> =>
                 /\ SeqRange(rows) = SeqRange(summary_rows)
                 /\ Len(rows) = Len(summary_rows)
                 /\ SeqRange(value_counts(cats)) = SeqRange(category_counts)

\* a finished batch in which one device name was given by two entries with
\* different numbers of findings, next to another device
C7_Witness ==
  /\ pc = "shown"
  /\ LET E == Evaluated(uploaded_files)
     IN /\ Len(E) >= 3
        /\ \E a, b, c \in 1..Len(E) :
             /\ a # b
             /\ E[a].inner = E[b].inner
             /\ Len(FindingsOf(E[a])) # Len(FindingsOf(E[b]))
             /\ E[c].inner # E[a].inner
             /\ FindingsOf(E[c]) # <<>>

\* --------------------------------------------------------------------- C8
\* C8: after a batch, every finding returned by audit_config is exactly one
\* row of the flat table with its five fields unchanged, is counted once in
\* its device's Findings Count and once in its category's total; the sum of
\* the device counts, the sum of the category totals and the length of the
\* flat list are equal.
C8_Conservation ==
  Finished =>
    LET E == Evaluated(uploaded_files)
        all == Concat([k \in 1..Len(E) |-> FindingsOf(E[k])])
    IN /\ Len(df) = Len(all)
       /\ \A k \in 1..Len(all) :
            /\ df[k].Finding = all[k][1]
            /\ df[k].File = all[k][2]
            /\ df[k].RiskDesc = all[k][3]
            /\ df[k].Recommendation = all[k][4]
            /\ df[k].Category = all[k][5]
       /\ \A d \in {all[k][2] : k \in 1..Len(all)} :
            \E k \in 1..Len(summary_rows) :
              /\ summary_rows[k][1] = d
              /\ summary_rows[k][2] = Cardinality({j \in 1..Len(all) : all[j][2] = d})
              /\ \A k2 \in 1..Len(summary_rows) : summary_rows[k2][1] = d => k2 = k
       /\ \A c \in {all[k][5] : k \in 1..Len(all)} :
            \E k \in 1..Len(category_counts) :
              /\ category_counts[k][1] = c
              /\ category_counts[k][2] = Cardinality({j \in 1..Len(all) : all[j][5] = c})
              /\ \A k2 \in 1..Len(category_counts) : category_counts[k2][1] = c => k2 = k
       /\ SumSeq([k \in 1..Len(summary_rows) |-> summary_rows[k][2]]) = Len(all)
       /\ SumSeq([k \in 1..Len(category_counts) |-> category_counts[k][2]]) = Len(all)

\* a finished batch with findings of several devices and several categories
C8_Witness ==
  /\ pc = "shown"
  /\ Len(summary_rows) >= 2
  /\ Len(category_counts) >= 3
  /\ Len(df) >= 5

\* --------------------------------------------------------------------- C9
\* C9: after a batch, the device summary has exactly one row for each
\* distinct device name whose text was evaluated in the batch.
C9_RowPerDevice ==
  pc = "shown" =>
    LET E == Evaluated(uploaded_files)
        devices == {E[k].inner : k \in 1..Len(E)}
    IN /\ {summary_rows[k][1] : k \in 1..Len(summary_rows)} = devices
       /\ Len(summary_rows) = Cardinality(devices)

\* -------------------------------------------------------------------- C10
\* the catalog: the seven categories in their fixed order and, within a
\* category, the rules in the order they are listed
CatalogOrder ==
  << "DHCP Snooping Disabled", "Dynamic ARP Inspection Missing",
     "Port Security Not Configured", "Unused Interfaces Active (heuristic)",
     "Default Native VLAN in Use",
     "Telnet Enabled", "Default SNMP Community", "No ACLs Found",
     "No AAA Configured", "Local User Accounts with Passwords",
     "No Syslog Configured", "No NTP Configured", "SNMPv3 Not Configured",
     "FTP Enabled", "HTTP Server Enabled", "SSH Not Configured",
     "No First-Hop Redundancy (HSRP/VRRP)", "No Storm Control",
     "Spanning Tree Not Configured",
     "Weak Password Encryption (Type 7)", "No Config Archiving",
     "Passwords Not Encrypted" >>

CategoryOrder ==
  <<"Layer 2", "Access Control", "AAA", "Logging", "Crypto", "Resilience", "Config Mgmt">>

PosIn(sq, x) == CHOOSE k \in 1..Len(sq) : sq[k] = x

\* C10: in the flat list the findings of the entry processed k-th all precede
\* those of the entry processed next, and the findings of one entry stand in
\* catalog order: categories in the fixed order, rules in listed order.
C10_FlatOrder ==
  pc \in {"loop", "shown", "no_findings"} =>
    LET E == Evaluated(SubSeq(uploaded_files, 1, idx - 1))
        fss == [k \in 1..Len(E) |-> FindingsOf(E[k])]
        lens == [k \in 1..Len(E) |-> Len(fss[k])]
        first(m) == SumSeq(SubSeq(lens, 1, m - 1)) + 1
        last(m) == SumSeq(SubSeq(lens, 1, m))
    IN /\ Len(results) = SumSeq(lens)
       /\ \A k \in 1..Len(results) :
            results[k][1] \in SeqRange(CatalogOrder) /\ results[k][5] \in SeqRange(CategoryOrder)
       /\ LET rule == [k \in 1..Len(results) |-> PosIn(CatalogOrder, results[k][1])]
              cat == [k \in 1..Len(results) |-> PosIn(CategoryOrder, results[k][5])]
          IN \A m \in 1..Len(E) :
               /\ \A a \in first(m)..last(m) :
                    /\ results[a][2] = E[m].inner
                    /\ results[a] = fss[m][a - first(m) + 1]
               /\ \A a, b \in first(m)..last(m) :
                    a < b => (rule[a] < rule[b] /\ cat[a] <= cat[b])

\* a finished batch of two entries that each gave findings of several rules
C10_Witness ==
  /\ pc = "shown"
  /\ LET E == Evaluated(uploaded_files)
     IN /\ Len(E) >= 2
        /\ Len(FindingsOf(E[1])) >= 2
        /\ Len(FindingsOf(E[2])) >= 5
        /\ E[1].inner # E[2].inner

\* -------------------------------------------------------------------- C11
\* a text with a declaration that has no name, or whose last interface block
\* runs to the end of the text without a shutdown line
MalformedText(lines) ==
  \/ HasLine(lines, {I_bare})
  \/ \E i \in 1..Len(lines) :
       UnshutBlockAt(lines, i) /\ BlockLastLine(lines, i) = Len(lines)

\* C11: audit_config is total on decoded text: for every text, the empty text
\* and texts with a malformed or unterminated interface block included, the
\* call returns (it has no error outcome) a sequence of findings, each a
\* five-field tuple filed under the file name with a title and a category of
\* the catalog; a directive that is cut short counts as not matched, so every
\* absence rule whose directive the text does not hold contributes its
\* finding, once.
C11_Total ==
  /\ audit_pc \in {"call", "ret"}
  /\ audit_pc = "ret" =>
       /\ \A k \in 1..Len(ret_findings) :
            /\ Len(ret_findings[k]) = 5
            /\ ret_findings[k][1] \in SeqRange(CatalogOrder)
            /\ ret_findings[k][2] = arg_filename
            /\ ret_findings[k][5] \in SeqRange(CategoryOrder)
       /\ \A r \in AbsenceRules :
            ~HasLine(arg_lines, r.lines) => CountTitle(ret_findings, {r.title}) = 1

\* a text of white space, nameless declarations and directives cut short,
\* evaluated to the fourteen absence findings
C11_Witness ==
  /\ audit_pc = "ret"
  /\ HasLine(arg_lines, {I_bare})
  /\ HasLine(arg_lines, {X_aaa, X_snmp, X_ntp})
  /\ MalformedText(arg_lines)
  /\ CountTitle(ret_findings, AbsenceTitles) = 14

\* -------------------------------------------------------------------- C12
\* the text is empty except for the line 'aaa new-model'
OnlyAaaNewModel(lines) ==
  /\ HasLine(lines, {M_aaa})
  /\ \A k \in 1..Len(lines) : lines[k] \in {M_aaa, O_blank}

\* C12 as stated: a text that is empty except for the line 'aaa new-model'
\* gets between 1 and 5 findings and so the risk score Medium or Low.
C12_Original ==
  (audit_pc = "ret" /\ OnlyAaaNewModel(arg_lines)) =>
    /\ 1 <= Len(ret_findings) /\ Len(ret_findings) <= 5
    /\ get_risk_score(Len(ret_findings)) \in {"Medium", "Low"}

\* C12 amended: a text that is empty except for the line 'aaa new-model' gets
\* exactly 13 findings, one for every absence rule other than 'No AAA
\* Configured', and so the risk score High.
C12_AaaOnlyIsHigh ==
  (audit_pc = "ret" /\ OnlyAaaNewModel(arg_lines)) =>
    /\ Len(ret_findings) = 13
    /\ Titles(ret_findings) = AbsenceTitles \ {"No AAA Configured"}
    /\ get_risk_score(Len(ret_findings)) = "High"

\* the one-line text 'aaa new-model', evaluated and scored
C12_Witness ==
  /\ audit_pc = "ret"
  /\ arg_lines = <<M_aaa>>
  /\ "No AAA Configured" \notin Titles(ret_findings)
  /\ get_risk_score(Len(ret_findings)) = "High"

\* -------------------------------------------------------------------- C13
\* the text with every letter in lower case
lowered(c) == [k \in 1..Len(c) |-> lower(c[k])]

\* C13: changing the letter case of characters of a text does not change the
\* set of finding titles audit_config returns: every text gets the titles its
\* lower-case form gets, the Telnet rule and the shutdown test included.
C13_CaseInsensitive ==
  audit_pc = "ret" =>
    Titles(ret_findings) = Titles(audit_config(arg_filename, lowered(arg_content)))

\* -------------------------------------------------------------------- C14
\* the names of the uploads that failed, in upload order
RECURSIVE FailedNames(_)
FailedNames(ups) ==
  IF ups = <<>> THEN <<>>
  ELSE (IF Head(ups).fail > 0 THEN <<Head(ups).name>> ELSE <<>>)
         \o FailedNames(Tail(ups))

\* the findings of the entries of ups that are evaluated, in processing order
FindingsOfUploads(ups) ==
  LET E == Evaluated(ups)
  IN Concat([k \in 1..Len(E) |-> FindingsOf(E[k])])

\* C14: a failure while reading or extracting one upload is confined to it:
\* after each step of the loop the warnings name exactly the uploads that
\* failed so far, once each, the flat list holds the findings collected from
\* the uploads before unchanged, followed by those of the entries the failed
\* upload gave before it failed, and the loop ends only after the last upload,
\* with the findings of the uploads that followed a failure in the list.
C14_FailureConfined ==
  pc \in {"loop", "shown", "no_findings"} =>
    LET done == SubSeq(uploaded_files, 1, idx - 1)
    IN /\ idx <= Len(uploaded_files) + 1
       /\ warnings = FailedNames(done)
       /\ results = FindingsOfUploads(done)
       /\ Finished =>
            /\ idx = Len(uploaded_files) + 1
            /\ warnings = FailedNames(uploaded_files)
            /\ results = FindingsOfUploads(uploaded_files)

\* a finished batch whose first upload broke after it had given findings and
\* whose second upload was read and gave findings of its own
C14_Witness ==
  /\ Finished
  /\ Len(uploaded_files) = 2
  /\ uploaded_files[1].fail > 1
  /\ FindingsOfUploads(<<uploaded_files[1]>>) # <<>>
  /\ uploaded_files[2].fail = 0
  /\ FindingsOfUploads(<<uploaded_files[2]>>) # <<>>
  /\ warnings = <<uploaded_files[1].name>>
  /\ Len(results) = Len(FindingsOfUploads(<<uploaded_files[1]>>))
                      + Len(FindingsOfUploads(<<uploaded_files[2]>>))

\* -------------------------------------------------------------------- C15
\* C15: the outcome 'No findings identified in uploaded files' is reached
\* only when every upload of the batch was read or extracted without failure
\* and every evaluated entry gave zero findings; it is never reached for a
\* batch in which an upload failed.
C15_NoFindingsDistinct ==
  pc = "no_findings" =>
    /\ \A k \in 1..Len(uploaded_files) : uploaded_files[k].fail = 0
    /\ warnings = <<>>
    /\ LET E == Evaluated(uploaded_files)
       IN \A k \in 1..Len(E) : FindingsOf(E[k]) = <<>>

\* -------------------------------------------------------------------- C20
\* C20: the matrix of the heat map has, for every device of the batch and
\* every one of the 7 fixed categories, an entry equal to the number of the
\* device's findings in that category: 0, not a missing entry, where the
\* device has none, also in a category in which no device has a finding.
C20_HeatmapMatrix ==
  pc = "shown" =>
    LET E == Evaluated(uploaded_files)
        devices == {E[k].inner : k \in 1..Len(E)}
    IN /\ heatmap.kind = "heatmap"
       /\ devices \subseteq heatmap.index
       /\ SeqRange(CategoryOrder) \subseteq SeqRange(heatmap.columns)
       /\ \A d \in devices : \A c \in SeqRange(CategoryOrder) :
            heatmap.cell[d][c] =
              Cardinality({k \in 1..Len(results) : results[k][2] = d /\ results[k][5] = c})

\* -------------------------------------------------------------------- C16
\* C16: whenever generate_pdf_report has returned or has failed (a chart
\* that cannot be saved, a document that cannot be built, a first file that
\* cannot be deleted), no temporary chart file it created still exists.
C16_TempFilesReleased ==
  report_pc \in {"returned", "raised"} => tmp_files = {}

\* -------------------------------------------------------------------- C18
\* the flowables of the detailed-findings section: those after its heading
DetailSection ==
  LET h == CHOOSE k \in 1..Len(elements) :
             elements[k] = Flowable("Paragraph", "Detailed Findings")
  IN SubSeq(elements, h + 1, Len(elements))

\* the devices of the flat finding list in order of first appearance, stated
\* by position: d stands before e iff d's first finding precedes e's
FirstRow(d) == CHOOSE k \in 1..Len(results) :
                 results[k][2] = d /\ \A j \in 1..(k - 1) : results[j][2] # d

TablesOf(sec) == SelectSeq(sec, LAMBDA x : x.kind = "Table")

\* the number of device tables of sec that stand before position p
TablesBefore(sec, p) == Cardinality({k \in 1..(p - 1) : sec[k].kind = "Table"})

BreaksOf(sec) == {k \in 1..Len(sec) : sec[k].kind = "PageBreak"}

\* the section has a table per device of the flat list, in order of first
\* appearance, and at most two tables in a row without a page break
TablesInOrder(sec) ==
  LET tabs == TablesOf(sec)
  IN /\ {tabs[k].arg[1] : k \in 1..Len(tabs)} = {results[k][2] : k \in 1..Len(results)}
     /\ \A a, b \in 1..Len(tabs) :
          a < b => FirstRow(tabs[a].arg[1]) < FirstRow(tabs[b].arg[1])
     /\ \A p, q \in BreaksOf(sec) \cup {0, Len(sec) + 1} :
          (p < q /\ \A r \in BreaksOf(sec) : ~(p < r /\ r < q)) =>
            TablesBefore(sec, q) - TablesBefore(sec, p) <= 2

\* C18 as stated: in the detailed-findings section the devices are taken in
\* order of first appearance in the flat finding list and a page break
\* follows every second device table (the 2nd, 4th, 6th, ...), so that no
\* more than two device tables lie between consecutive page breaks.
C18_Original ==
  report_pc \in {"build", "cleanup", "returned"} =>
    LET sec == DetailSection
        n == Len(TablesOf(sec))
    IN /\ TablesInOrder(sec)
       /\ {TablesBefore(sec, p) : p \in BreaksOf(sec)} = {m \in 1..n : m % 2 = 0}
       /\ Cardinality(BreaksOf(sec)) = Cardinality({m \in 1..n : m % 2 = 0})

\* C18 amended: the devices are taken in order of first appearance in the
\* flat finding list and a page break follows every second device table that
\* is not the last one (the 2nd, 4th, ... of more), so that no more than two
\* device tables lie between consecutive page breaks and the section does not
\* end in a page break.
C18_PageBreaks ==
  report_pc \in {"build", "cleanup", "returned"} =>
    LET sec == DetailSection
        n == Len(TablesOf(sec))
    IN /\ TablesInOrder(sec)
       /\ {TablesBefore(sec, p) : p \in BreaksOf(sec)} = {m \in 1..(n - 1) : m % 2 = 0}
       /\ Cardinality(BreaksOf(sec)) = Cardinality({m \in 1..(n - 1) : m % 2 = 0})
       /\ sec[Len(sec)].kind # "PageBreak"

\* a report on four devices, the first of them given again by a later entry:
\* one page break, after the second table
C18_Witness ==
  /\ report_pc = "returned"
  /\ Len(uploaded_files) = 5
  /\ uploaded_files[5].name = uploaded_files[1].name
  /\ Len(TablesOf(DetailSection)) = 4
  /\ Cardinality(BreaksOf(DetailSection)) = 1

\* -------------------------------------------------------------------- C19
\* the names stand in the fixed order of the seven categories
InFixedOrder(ns) ==
  /\ \A k \in 1..Len(ns) : ns[k] \in SeqRange(CategoryOrder)
  /\ \A a, b \in 1..Len(ns) :
       a < b => PosIn(CategoryOrder, ns[a]) < PosIn(CategoryOrder, ns[b])

\* C19: the category distribution of the reports, the bars of the PDF chart
\* and the bullets of the Word list, names the categories in the fixed order
\* Layer 2, Access Control, AAA, Logging, Crypto, Resilience, Config Mgmt,
\* for every batch and whatever the number of findings of each category.
C19_FixedCategoryOrder ==
  /\ report_pc \in {"details", "build", "cleanup", "returned"} => InFixedOrder(cat_names)
  /\ report_pc = "word_returned" => InFixedOrder(keys(word_bullets))

\* -------------------------------------------------------------------- C17
\* C17: over any sequence of runs, the flat finding list and the mapping from
\* device to findings of a run hold exactly the findings produced from the
\* uploads of that run, each filed under the name of the entry it came from;
\* nothing of an earlier run is present.
C17_BatchIsolation ==
  pc \in {"loop", "shown", "no_findings"} =>
    LET E == Evaluated(SubSeq(uploaded_files, 1, idx - 1))
        own == Concat([k \in 1..Len(E) |-> FindingsOf(E[k])])
        mine(d) == SelectSeq(own, LAMBDA f : f[2] = d)
    IN /\ results = own
       /\ \A k \in 1..Len(E) :
            \A j \in 1..Len(FindingsOf(E[k])) : FindingsOf(E[k])[j][2] = E[k].inner
       /\ {device_summary[k].device : k \in 1..Len(device_summary)}
            = {own[k][2] : k \in 1..Len(own)}
       /\ \A a, b \in 1..Len(device_summary) :
            device_summary[a].device = device_summary[b].device => a = b
       /\ \A k \in 1..Len(device_summary) :
            device_summary[k].items = mine(device_summary[k].device)
       /\ \A d \in earlier :
            (\A k \in 1..Len(E) : E[k].inner # d) =>
              /\ \A k \in 1..Len(results) : results[k][2] # d
              /\ \A k \in 1..Len(device_summary) : device_summary[k].device # d

\* a later run that shows findings of sw2.txt only, after a run in which
\* sw1.txt had findings
C17_Witness ==
  /\ cycle >= 2
  /\ pc = "shown"
  /\ "sw1.txt" \in earlier
  /\ results # <<>>
  /\ \A k \in 1..Len(results) : results[k][2] = "sw2.txt"
  /\ Len(device_summary) = 1

====
